---- MODULE Spec2Model ----
(***************************************************************************)
(* DTLSListener (net/dtlslistener.go): a background accept pump            *)
(* (acceptLoop) feeding an unbuffered channel, and the caller-side         *)
(* operations Accept, AcceptWithContext, SetDeadline and Close.            *)
(*                                                                         *)
(* Time is kept relative to the current instant: a time.Time value is the  *)
(* record [kind |-> "time", off |-> t - now], so time.Now() has offset 0   *)
(* and Tick (one clock unit passing) lowers every stored offset by one.    *)
(* Offsets stop at 0: an instant earlier than now behaves like now.        *)
(* The zero time.Time is [kind |-> "zero"], an atomic.Value never stored   *)
(* to is [kind |-> "nil"].                                                 *)
(*                                                                         *)
(* A send on connCh and the receive it meets are one step (PumpSend): the  *)
(* channel is unbuffered. A select with several ready cases is a choice    *)
(* between the steps of those cases. The underlying listener's Accept      *)
(* returns the next connection or an error, and only an error once the     *)
(* listener has been closed. Under Spec Close is invoked at most once per  *)
(* listener; ReCloseSpec adds further calls of Close, and the panic of     *)
(* close(l.doneCh) on the closed channel, which ends the process.          *)
(***************************************************************************)
EXTENDS Integers, Sequences, FiniteSets, TLC

\* ---------------------------------------------------------------- bounds
MaxConns == 2        \* connections the underlying listener hands out
MaxDeadline == 2     \* largest offset from now passed to SetDeadline
LateCap == 2         \* the count of late Accept attempts saturates here
MaxHeartBeat == 1    \* largest heartBeat given to NewDTLSListener

\* the goroutines calling the listener's methods
Callers == {1, 2}

\* ---------------------------------------------------------------- values
NilErr == "<nil>"
ioTimeout == "i/o timeout"
ErrFatal == "accept failed"
ErrClosed == "listener closed"
ErrCloseFail == "close failed"
ErrCanceled == "context canceled"

NilConn == <<>>
NewConnDTLS(conn) == <<"ConnDTLS", conn>>

Errorf(e) == "cannot accept connections: " \o e

isTemporary(e) == e = ioTimeout

ZeroTime == [kind |-> "zero", off |-> 0]
NilValue == [kind |-> "nil", off |-> 0]
Time(o) == [kind |-> "time", off |-> o]
Now == Time(0)
Add(t, d) == Time(t.off + d)
IsZero(t) == t.kind = "zero"

connData(conn, err) == [conn |-> conn, err |-> err]
Result(conn, err) == [conn |-> conn, err |-> err]
NoRet == [conn |-> NilConn, err |-> "<running>"]

\* the ctx passed to AcceptWithContext: never cancelled ("background"),
\* cancellable and not yet cancelled ("live"), or fired, before the call
\* ("...0") or during it, with ctx.Err() nil ("graceful") or not ("canceled")
CtxAtCall == {"background", "live", "graceful0", "canceled0"}

VARIABLES
  heartBeat,     \* l.heartBeat, in clock units
  pumpPc,        \* acceptLoop: "accept" (l.33), "select" (l.34), "exited"
  pumpVal,       \* the connData acceptLoop holds at its select
  lclosed,       \* l.listener.Close has been called
  doneCh,        \* TRUE once close(l.doneCh) has run
  wg,            \* l.wg counter
  deadline,      \* l.deadline
  pc,            \* per caller: position in the method it runs
  op,            \* per caller: the method it runs (or ran last)
  ctx,           \* per caller: state of the ctx passed to AcceptWithContext
  dl,            \* per caller: Accept's local deadline
  cerr,          \* per caller: Close's local err
  ret,           \* per caller: what the last method call returned
  accLog,        \* history: outcomes of l.listener.Accept(), in order
  recvLog,       \* history: handoffs on connCh, in order
  abandoned,     \* history: connections acceptLoop dropped on <-l.doneCh
  closeReturned, \* history: Close has returned
  atClose,       \* history: callers still in the blocking call they were
                 \*   in when Close was invoked
  deadlineBy,    \* history: the caller of the last l.deadline.Store (0: none)
  afterErr,      \* history: per caller, its Accept began after a fatal error
  late           \* history: per caller, Accept attempts begun after ctx fired

pumpVars == <<pumpPc, pumpVal, lclosed, doneCh, wg>>
callVars == <<pc, op, ctx, dl, cerr, ret>>
histVars == <<accLog, recvLog, abandoned, closeReturned, atClose, deadlineBy,
              afterErr, late>>
vars == <<heartBeat, pumpVars, deadline, callVars, histVars>>

\* --------------------------------------------------------------- helpers
Bump(n) == IF n < LateCap THEN n + 1 ELSE n
Lower(t) == IF t.kind = "time" /\ t.off > 0 THEN Time(t.off - 1) ELSE t
Produced == {accLog[i].conn : i \in DOMAIN accLog} \ {0}
Delivered == {recvLog[i].conn : i \in DOMAIN recvLog} \ {0}
CtxFired(c) == ctx[c] \in {"graceful", "canceled", "graceful0", "canceled0"}
CtxErr(c) == IF ctx[c] \in {"canceled", "canceled0"} THEN ErrCanceled
                                                     ELSE NilErr
FatalSoFar == \E i \in DOMAIN accLog : accLog[i].err # NilErr

\* NewDTLSListener: the state when the constructor returns
Init ==
  /\ heartBeat \in 1 .. MaxHeartBeat
  /\ pumpPc = "accept"
  /\ pumpVal = connData(0, NilErr)
  /\ lclosed = FALSE
  /\ doneCh = FALSE
  /\ wg = 1
  /\ deadline = NilValue
  /\ pc = [c \in Callers |-> "idle"]
  /\ op = [c \in Callers |-> "none"]
  /\ ctx = [c \in Callers |-> "background"]
  /\ dl = [c \in Callers |-> ZeroTime]
  /\ cerr = [c \in Callers |-> NilErr]
  /\ ret = [c \in Callers |-> NoRet]
  /\ accLog = <<>>
  /\ recvLog = <<>>
  /\ abandoned = {}
  /\ closeReturned = FALSE
  /\ atClose = {}
  /\ deadlineBy = 0
  /\ afterErr = [c \in Callers |-> FALSE]
  /\ late = [c \in Callers |-> 0]

\* ------------------------------------------------------------ acceptLoop
\* what l.listener.Accept() can return in the current state: the next
\* connection or a fatal error; only an error once the listener is closed
AcceptOutcomes ==
  IF lclosed
    THEN {connData(0, ErrClosed)}
    ELSE {connData(k, NilErr) :
            k \in {Cardinality(Produced) + 1} \cap (1 .. MaxConns)}
         \cup {connData(0, ErrFatal)}

\* acceptLoop sending a value captured before the loop instead of the
\* outcome of the accept it has just made
PumpAcceptStale ==
  /\ pumpPc = "accept"
  /\ \E d \in AcceptOutcomes : accLog' = Append(accLog, d)
  /\ pumpPc' = "select"
  /\ UNCHANGED <<heartBeat, pumpVal, lclosed, doneCh, wg, deadline, callVars,
                 recvLog, abandoned, closeReturned, atClose, afterErr, late,
                 deadlineBy>>

\* acceptLoop calling the underlying accept again while its last outcome
\* is still on offer, which that outcome does not survive
PumpAcceptOverwriting ==
  /\ pumpPc \in {"accept", "select"}
  /\ \E d \in AcceptOutcomes :
       /\ pumpVal' = d
       /\ accLog' = Append(accLog, d)
  /\ pumpPc' = "select"
  /\ UNCHANGED <<heartBeat, lclosed, doneCh, wg, deadline, callVars, recvLog,
                 abandoned, closeReturned, atClose, afterErr, late,
                 deadlineBy>>

\* conn, err := l.listener.Accept()
PumpAccept ==
  /\ pumpPc = "accept"
  /\ \E d \in AcceptOutcomes :
       /\ pumpVal' = d
       /\ accLog' = Append(accLog, d)
  /\ pumpPc' = "select"
  /\ UNCHANGED <<heartBeat, lclosed, doneCh, wg, deadline, callVars, recvLog, abandoned,
                 closeReturned, atClose, afterErr, late,
                 deadlineBy>>

\* acceptLoop without "if err != nil { return }": it loops after any send
AfterSendKeepsLooping(d) == "accept"

\* acceptLoop with an unconditional return after its send
AfterSendAlwaysReturns(d) == "exited"

\* where acceptLoop goes after its send of d was received
AfterSend(d) == IF d.err # NilErr THEN "exited" ELSE "accept"

\* what Accept returns for a received d
Received(d) ==
  IF d.err # NilErr THEN Result(NilConn, d.err)
                    ELSE Result(NewConnDTLS(d.conn), NilErr)

\* a method of caller c returns r
Return(c, r) ==
  /\ pc' = [pc EXCEPT ![c] = "idle"]
  /\ ret' = [ret EXCEPT ![c] = r]
  /\ late' = [late EXCEPT ![c] = 0]
  /\ atClose' = atClose \ {c}

\* AcceptWithContext without the isTemporary test: every error returns
ContinueNever(r) == FALSE

\* if err != nil { if isTemporary(err) { continue } ... }
Continue(r) == r.err # NilErr /\ isTemporary(r.err)

\* AcceptWithContext ending in "return nil, nil" in place of "return rw, nil"
AfterAcceptDropsConn(r) ==
  IF r.err # NilErr THEN Result(NilConn, Errorf(r.err))
                    ELSE Result(NilConn, NilErr)

\* what AcceptWithContext returns for the (rw, err) of l.Accept() when it
\* does not continue
AfterAccept(r) ==
  IF r.err # NilErr THEN Result(NilConn, Errorf(r.err))
                    ELSE Result(r.conn, NilErr)

\* Accept returns r: to the caller, or into AcceptWithContext, which loops
\* or returns
AcceptReturn(c, r) ==
  /\ dl' = [dl EXCEPT ![c] = ZeroTime]
  /\ IF op[c] = "AcceptWithContext"
       THEN IF Continue(r)
              THEN /\ pc' = [pc EXCEPT ![c] = "awc_ctx"]
                   /\ UNCHANGED <<ret, late, atClose>>
              ELSE Return(c, AfterAccept(r))
       ELSE Return(c, r)

\* case l.connCh <- connData{...} in acceptLoop meets d := <-l.connCh in
\* the Accept of caller c
PumpSend(c) ==
  /\ pumpPc = "select"
  /\ pc[c] \in {"acc_block", "acc_select"}
  /\ recvLog' = Append(recvLog, pumpVal)
  /\ pumpPc' = AfterSend(pumpVal)
  /\ wg' = IF AfterSend(pumpVal) = "exited" THEN wg - 1 ELSE wg
  /\ AcceptReturn(c, Received(pumpVal))
  /\ UNCHANGED <<heartBeat, pumpVal, lclosed, doneCh, deadline, op, ctx, cerr, accLog,
                 abandoned, closeReturned, afterErr,
                 deadlineBy>>

\* acceptLoop with "default:" in place of "case <-l.doneCh:": it gives up
\* its result whenever no receiver is ready
PumpDoneUnsignalled ==
  /\ pumpPc = "select"
  /\ pumpPc' = "exited"
  /\ wg' = wg - 1
  /\ abandoned' = abandoned \cup ({pumpVal.conn} \ {0})
  /\ UNCHANGED <<heartBeat, pumpVal, lclosed, doneCh, deadline, callVars,
                 accLog, recvLog, closeReturned, atClose, afterErr, late,
                 deadlineBy>>

\* acceptLoop sending with a bare "l.connCh <- ...", no case <-l.doneCh
PumpDoneMissing ==
  /\ FALSE
  /\ UNCHANGED vars

\* case <-l.doneCh: return
PumpDone ==
  /\ pumpPc = "select"
  /\ doneCh
  /\ pumpPc' = "exited"
  /\ wg' = wg - 1
  /\ abandoned' = abandoned \cup ({pumpVal.conn} \ {0})
  /\ UNCHANGED <<heartBeat, pumpVal, lclosed, doneCh, deadline, callVars, accLog,
                 recvLog, closeReturned, atClose, afterErr, late,
                 deadlineBy>>

\* ----------------------------------------------------------- SetDeadline
DeadlineArgs == {ZeroTime, Now, Add(Now, MaxDeadline)}

\* l.deadline.Store(t) by caller c
Store(c, t) ==
  /\ deadline' = t
  /\ deadlineBy' = c

SetDeadline(c, t) ==
  /\ pc[c] = "idle"
  /\ Store(c, t)
  /\ op' = [op EXCEPT ![c] = "SetDeadline"]
  /\ ret' = [ret EXCEPT ![c] = Result(NilConn, NilErr)]
  /\ afterErr' = [afterErr EXCEPT ![c] = FALSE]
  /\ ctx' = [ctx EXCEPT ![c] = "background"]
  /\ UNCHANGED <<heartBeat, pumpVars, pc, dl, cerr, accLog, recvLog, abandoned,
                 closeReturned, atClose, late>>

\* ---------------------------------------------------------------- Accept
\* v := l.deadline.Load(); if v != nil { deadline = v.(time.Time) }
Load == IF deadline.kind = "nil" THEN ZeroTime ELSE deadline

\* Accept without the "if deadline.IsZero()" branch: always the timed select
WaitAtAlwaysTimed(t) == "acc_select"

\* the select Accept waits in: without timer if deadline.IsZero()
WaitAt(t) == IF IsZero(t) THEN "acc_block" ELSE "acc_select"

\* Accept up to its select
AcceptBegin(c) ==
  /\ dl' = [dl EXCEPT ![c] = Load]
  /\ pc' = [pc EXCEPT ![c] = WaitAt(Load)]

\* a caller calls l.Accept()
CallAccept(c) ==
  /\ pc[c] = "idle"
  /\ op' = [op EXCEPT ![c] = "Accept"]
  /\ ret' = [ret EXCEPT ![c] = NoRet]
  /\ afterErr' = [afterErr EXCEPT ![c] = FatalSoFar]
  /\ ctx' = [ctx EXCEPT ![c] = "background"]
  /\ AcceptBegin(c)
  /\ UNCHANGED <<heartBeat, pumpVars, deadline, cerr, accLog, recvLog, abandoned,
                 closeReturned, atClose, late,
                 deadlineBy>>

\* AcceptWithContext handing now + heartBeat to its Accept as a per-call
\* deadline instead of going through l.deadline
AcceptLoadOwnDeadline(c) ==
  /\ pc[c] = "acc_load"
  /\ dl' = [dl EXCEPT ![c] = Add(Now, heartBeat)]
  /\ pc' = [pc EXCEPT ![c] = "acc_select"]
  /\ late' = [late EXCEPT ![c] = IF CtxFired(c) THEN Bump(@) ELSE @]
  /\ UNCHANGED <<heartBeat, pumpVars, deadline, op, ctx, cerr, ret, accLog,
                 recvLog, abandoned, closeReturned, atClose, afterErr,
                 deadlineBy>>

\* rw, err := l.Accept() inside AcceptWithContext
AcceptLoad(c) ==
  /\ pc[c] = "acc_load"
  /\ AcceptBegin(c)
  /\ late' = [late EXCEPT ![c] = IF CtxFired(c) THEN Bump(@) ELSE @]
  /\ UNCHANGED <<heartBeat, pumpVars, deadline, op, ctx, cerr, ret, accLog, recvLog,
                 abandoned, closeReturned, atClose, afterErr,
                 deadlineBy>>

\* Accept whose timeout branch first drains connCh and discards what it got
AcceptTimeoutDraining(c) ==
  /\ pc[c] = "acc_select"
  /\ dl[c].kind = "time" /\ dl[c].off <= 0
  /\ IF pumpPc = "select"
       THEN /\ recvLog' = Append(recvLog, pumpVal)
            /\ pumpPc' = IF pumpVal.err # NilErr THEN "exited" ELSE "accept"
            /\ wg' = IF pumpVal.err # NilErr THEN wg - 1 ELSE wg
       ELSE UNCHANGED <<recvLog, pumpPc, wg>>
  /\ AcceptReturn(c, Result(NilConn, ioTimeout))
  /\ UNCHANGED <<heartBeat, pumpVal, lclosed, doneCh, deadline, op, ctx, cerr,
                 accLog, abandoned, closeReturned, afterErr, deadlineBy>>

\* a timer that fires only once its instant lies strictly in the past
TimerFiredStrictlyPast(c) == dl[c].kind = "time" /\ dl[c].off < 0

\* the timer of time.After(deadline.Sub(time.Now())) has fired
TimerFired(c) == dl[c].kind = "time" /\ dl[c].off <= 0

\* case <-time.After(...): return nil, fmt.Errorf(ioTimeout)
AcceptTimeout(c) ==
  /\ pc[c] = "acc_select"
  /\ TimerFired(c)
  /\ AcceptReturn(c, Result(NilConn, ioTimeout))
  /\ UNCHANGED <<heartBeat, pumpVars, deadline, op, ctx, cerr, accLog, recvLog,
                 abandoned, closeReturned, afterErr,
                 deadlineBy>>

\* ----------------------------------------------------- AcceptWithContext
CallAcceptWithContext(c, k) ==
  /\ pc[c] = "idle"
  /\ op' = [op EXCEPT ![c] = "AcceptWithContext"]
  /\ pc' = [pc EXCEPT ![c] = "awc_ctx"]
  /\ ctx' = [ctx EXCEPT ![c] = k]
  /\ ret' = [ret EXCEPT ![c] = NoRet]
  /\ afterErr' = [afterErr EXCEPT ![c] = FALSE]
  /\ UNCHANGED <<heartBeat, pumpVars, deadline, dl, cerr, accLog, recvLog, abandoned,
                 closeReturned, atClose, late,
                 deadlineBy>>

\* the cancellation signal of a cancellable ctx fires
Cancel(c) ==
  /\ op[c] = "AcceptWithContext"
  /\ pc[c] # "idle"
  /\ ctx[c] = "live"
  /\ \E k \in {"graceful", "canceled"} : ctx' = [ctx EXCEPT ![c] = k]
  /\ UNCHANGED <<heartBeat, pumpVars, deadline, pc, op, dl, cerr, ret, histVars>>

\* AcceptWithContext without "if ctx.Err() != nil": cancellation always
\* returns (nil, nil)
CancelledAlwaysNil(c) == Result(NilConn, NilErr)

\* what the select on ctx.Done() returns once the signal has fired
Cancelled(c) ==
  IF CtxErr(c) # NilErr THEN Result(NilConn, Errorf(CtxErr(c)))
                        ELSE Result(NilConn, NilErr)

\* AcceptWithContext testing ctx.Err() == nil in place of ctx.Done()
ProceedOnNilErr(c) == CtxErr(c) = NilErr

\* AcceptWithContext without the select on ctx.Done() at the top of its loop
ProceedUntested(c) == TRUE

\* the cancellation test passes: select { case <-ctx.Done(): ... default: }
Proceed(c) == ~CtxFired(c)

\* one pass of the loop up to the call of l.Accept(): the cancellation
\* test, then l.SetDeadline(time.Now().Add(l.heartBeat))
AwcCheck(c) ==
  /\ pc[c] = "awc_ctx"
  /\ IF Proceed(c)
       THEN /\ Store(c, Add(Now, heartBeat))
            /\ pc' = [pc EXCEPT ![c] = "acc_load"]
            /\ UNCHANGED <<ret, late, atClose>>
       ELSE /\ Return(c, Cancelled(c))
            /\ UNCHANGED <<deadline, deadlineBy>>
  /\ UNCHANGED <<heartBeat, pumpVars, op, ctx, dl, cerr, accLog, recvLog, abandoned,
                 closeReturned, afterErr>>

\* ----------------------------------------------------------------- Close
\* caller b is inside an Accept with unset deadline or inside an
\* AcceptWithContext whose ctx is never cancelled
Pending(b) ==
  \/ op[b] = "Accept" /\ pc[b] = "acc_block"
  \/ op[b] = "AcceptWithContext" /\ pc[b] # "idle" /\ ctx[b] = "background"

\* a caller calls l.Close(), the only Close of this listener:
\* err := l.listener.Close(time.Millisecond * 100)
CallClose(c) ==
  /\ pc[c] = "idle"
  /\ ~lclosed
  /\ atClose' = {b \in Callers : Pending(b)}
  /\ op' = [op EXCEPT ![c] = "Close"]
  /\ pc' = [pc EXCEPT ![c] = "close_done"]
  /\ ret' = [ret EXCEPT ![c] = NoRet]
  /\ afterErr' = [afterErr EXCEPT ![c] = FALSE]
  /\ lclosed' = TRUE
  /\ \E e \in {NilErr, ErrCloseFail} : cerr' = [cerr EXCEPT ![c] = e]
  /\ ctx' = [ctx EXCEPT ![c] = "background"]
  /\ UNCHANGED <<heartBeat, pumpPc, pumpVal, doneCh, wg, deadline, dl, accLog,
                 recvLog, abandoned, closeReturned, late, deadlineBy>>

\* Close with "if err != nil { return err }" after l.listener.Close
CloseDoneUnlessFailed(c) ==
  /\ pc[c] = "close_done"
  /\ IF cerr[c] # NilErr
       THEN /\ Return(c, Result(NilConn, cerr[c]))
            /\ cerr' = [cerr EXCEPT ![c] = NilErr]
            /\ closeReturned' = TRUE
            /\ UNCHANGED doneCh
       ELSE /\ doneCh' = TRUE
            /\ pc' = [pc EXCEPT ![c] = "close_wait"]
            /\ UNCHANGED <<cerr, ret, closeReturned, atClose, late>>
  /\ UNCHANGED <<heartBeat, pumpPc, pumpVal, lclosed, wg, deadline, op, ctx, dl,
                 accLog, recvLog, abandoned, deadlineBy, afterErr>>

\* close(l.doneCh), the channel being open
CloseDone(c) ==
  /\ pc[c] = "close_done"
  /\ ~doneCh
  /\ doneCh' = TRUE
  /\ pc' = [pc EXCEPT ![c] = "close_wait"]
  /\ UNCHANGED <<heartBeat, pumpPc, pumpVal, lclosed, wg, deadline, op, ctx, dl, cerr,
                 ret, histVars>>

\* Close without l.wg.Wait()
JoinedUnwaited == TRUE

\* l.wg.Wait() has nothing left to wait for
Joined == wg = 0

\* l.wg.Wait(); return err
CloseWait(c) ==
  /\ pc[c] = "close_wait"
  /\ Joined
  /\ Return(c, Result(NilConn, cerr[c]))
  /\ cerr' = [cerr EXCEPT ![c] = NilErr]
  /\ closeReturned' = TRUE
  /\ UNCHANGED <<heartBeat, pumpVars, deadline, op, ctx, dl, accLog, recvLog,
                 abandoned, afterErr, deadlineBy>>

\* ------------------------------------------------------------------ time
\* one clock unit passes
Tick ==
  /\ deadline' = Lower(deadline)
  /\ dl' = [c \in Callers |-> Lower(dl[c])]
  /\ UNCHANGED <<heartBeat, pumpVars, pc, op, ctx, cerr, ret, histVars>>

\* --------------------------------------------------------- specification
Next ==
  \/ PumpAccept
  \/ PumpDone
  \/ Tick
  \/ \E c \in Callers :
       \/ PumpSend(c)
       \/ CallAccept(c)
       \/ AcceptLoad(c)
       \/ AcceptTimeout(c)
       \/ \E t \in DeadlineArgs : SetDeadline(c, t)
       \/ \E k \in CtxAtCall : CallAcceptWithContext(c, k)
       \/ Cancel(c)
       \/ AwcCheck(c)
       \/ CallClose(c)
       \/ CloseDone(c)
       \/ CloseWait(c)

Spec == Init /\ [][Next]_vars

\* Scheduling of acceptLoop and of Close: the goroutine takes the step it
\* can take, a select with a ready case takes one, and l.listener.Accept()
\* returns once the listener is closed. Nothing obliges a connection to
\* arrive.
PumpFairness ==
  /\ WF_vars(lclosed /\ PumpAccept)
  /\ WF_vars(PumpDone)
  /\ \A c \in Callers :
       /\ WF_vars(CloseDone(c))
       /\ WF_vars(CloseWait(c))

\* Scheduling of the callers: a call in progress takes the step it can
\* take, a handoff both sides wait for happens, and time passes. Nothing
\* obliges callers to start calls or a ctx to be cancelled.
CallFairness ==
  /\ WF_vars(Tick)
  /\ \A c \in Callers :
       /\ WF_vars(PumpSend(c))
       /\ WF_vars(AcceptLoad(c))
       /\ WF_vars(AcceptTimeout(c))
       /\ WF_vars(AwcCheck(c))

CloseFairSpec == Spec /\ PumpFairness

\* the caller whose AcceptWithContext is followed to its return; callers
\* are interchangeable, the other one stays free to do anything
Consumer == CHOOSE c \in Callers : TRUE

\* Scheduling of a call of AcceptWithContext against acceptLoop's offer:
\* the call takes its next step up to Accept's select, and a select with
\* a ready receive takes it: at once when the timer is not due yet, and by
\* Go's uniform choice among ready cases when it is, so a receive that is
\* ready in select after select is taken in one of them. Nothing obliges
\* time to pass or a connection to arrive.
HandoffFairness ==
  /\ WF_vars(AwcCheck(Consumer))
  /\ WF_vars(AcceptLoad(Consumer))
  /\ SF_vars(PumpSend(Consumer))

HandoffFairSpec == Spec /\ HandoffFairness

FairSpec == Spec /\ PumpFairness /\ CallFairness

\* ------------------------------------------------------ Close called again
\* a caller calls l.Close() on a listener Close was already called on;
\* what l.listener.Close returns then is the underlying listener's choice
CallCloseAgain(c) ==
  /\ pc[c] = "idle"
  /\ lclosed
  /\ op' = [op EXCEPT ![c] = "Close"]
  /\ pc' = [pc EXCEPT ![c] = "close_done"]
  /\ ret' = [ret EXCEPT ![c] = NoRet]
  /\ afterErr' = [afterErr EXCEPT ![c] = FALSE]
  /\ \E e \in {NilErr, ErrCloseFail} : cerr' = [cerr EXCEPT ![c] = e]
  /\ ctx' = [ctx EXCEPT ![c] = "background"]
  /\ UNCHANGED <<heartBeat, pumpVars, deadline, dl, accLog, recvLog, abandoned,
                 closeReturned, atClose, late, deadlineBy>>

\* Close whose close(l.doneCh) is guarded (a sync.Once): a call finding
\* the signal fired goes on to l.wg.Wait()
ClosePanicGuarded(c) ==
  /\ pc[c] = "close_done"
  /\ doneCh
  /\ pc' = [pc EXCEPT ![c] = "close_wait"]
  /\ UNCHANGED <<heartBeat, pumpVars, deadline, op, ctx, dl, cerr, ret,
                 histVars>>

\* close(l.doneCh), the channel being closed already: panic
ClosePanic(c) ==
  /\ pc[c] = "close_done"
  /\ doneCh
  /\ pc' = [pc EXCEPT ![c] = "panic"]
  /\ UNCHANGED <<heartBeat, pumpVars, deadline, op, ctx, dl, cerr, ret,
                 histVars>>

\* a goroutine has panicked: nothing recovers it, the process is gone
Panicked == \E c \in Callers : pc[c] = "panic"

ReCloseNext ==
  /\ ~Panicked
  /\ \/ Next
     \/ \E c \in Callers : CallCloseAgain(c)
     \/ \E c \in Callers : ClosePanic(c)

ReCloseSpec == Init /\ [][ReCloseNext]_vars

\* ================================================================ claims
\* the connection acceptLoop holds at its select, if any
Held == IF pumpPc = "select" THEN {pumpVal.conn} \ {0} ELSE {}
\* the callers whose last call returned connection k
Holders(k) == {c \in Callers : ret[c].conn = NewConnDTLS(k)}

\* C1: every connection the underlying accept returned is in exactly one
\* place: still held by acceptLoop, handed to a receiver exactly once, or
\* abandoned; it is abandoned only through the done branch, which needs
\* Close to have fired the done-signal; at most one caller ever holds it,
\* and nothing is dropped while Close has not been invoked.
C1_DeliveredOnceOrAbandonedByClose ==
  /\ Produced = Delivered \cup abandoned \cup Held
  /\ Delivered \cap abandoned = {}
  /\ Delivered \cap Held = {}
  /\ abandoned \cap Held = {}
  /\ \A i, j \in DOMAIN recvLog :
       (i # j /\ recvLog[i].conn # 0) => recvLog[i].conn # recvLog[j].conn
  /\ \A k \in 1 .. MaxConns :
       /\ Cardinality(Holders(k)) <= 1
       /\ Holders(k) # {} => k \in Delivered
  /\ abandoned # {} => (doneCh /\ lclosed)
  /\ ~lclosed => Produced = Delivered \cup Held

\* C1 witness: one connection reached exactly one caller and a later one
\* was abandoned on the done branch
C1_Witness ==
  /\ \E c \in Callers : Holders(1) = {c}
  /\ abandoned = {2}

\* C2: a blocking call that is alone in flight when Close is invoked (an
\* Accept with unset deadline, or an AcceptWithContext whose ctx is never
\* cancelled) eventually returns: it is never left, once Close has
\* returned, waiting without a timer on connCh after acceptLoop, the only
\* sender, has gone. (Stated for listeners whose underlying accept did not
\* fail before Close.)
C2_NoCallLeftBlockedAfterClose ==
  \A c \in Callers :
    ~ /\ atClose = {c}
      /\ \A i \in DOMAIN accLog : accLog[i].err # ErrFatal
      /\ closeReturned
      /\ op[c] = "Accept"
      /\ pc[c] = "acc_block"
      /\ pumpPc = "exited"

\* the fatal error the underlying accept has returned
FatalErr == accLog[Len(accLog)].err

\* C3: an Accept call that begins after the underlying accept returned a
\* fatal error, and whose deadline is unset, gets that error: it returns
\* nothing else, and it is never left waiting on connCh with acceptLoop gone.
C3_AcceptAfterFatalErrorReturnsIt ==
  \A c \in Callers :
    (op[c] = "Accept" /\ afterErr[c]) =>
      /\ pc[c] = "acc_block" => pumpPc # "exited"
      /\ (pc[c] = "idle" /\ ret[c].err # ioTimeout) =>
           ret[c] = Result(NilConn, FatalErr)

\* caller c runs or has run AcceptWithContext with a ctx that had fired
\* before the call
FiredAtCall(c) ==
  op[c] = "AcceptWithContext" /\ ctx[c] \in {"graceful0", "canceled0"}

\* C4 as claimed: AcceptWithContext called with a signal that has already
\* fired starts no Accept attempt and returns (nil, nil).
C4_AlreadyCancelledReturnsNilNil ==
  \A c \in Callers :
    FiredAtCall(c) =>
      /\ pc[c] \in {"awc_ctx", "idle"}
      /\ pc[c] = "idle" => ret[c] = Result(NilConn, NilErr)

\* C4 amended: AcceptWithContext called with a signal that has already
\* fired starts no Accept attempt and returns no connection, with a nil
\* error when ctx.Err() is nil and otherwise with the error wrapping
\* ctx.Err().
C4_AlreadyCancelledReturnsAtOnce ==
  \A c \in Callers :
    FiredAtCall(c) =>
      /\ pc[c] \in {"awc_ctx", "idle"}
      /\ pc[c] = "idle" =>
           ret[c] = IF ctx[c] = "graceful0"
                      THEN Result(NilConn, NilErr)
                      ELSE Result(NilConn, Errorf(ErrCanceled))

\* C4 witness: a call with an already cancelled standard ctx has returned
\* the wrapped cancellation error, another with a graceful one (nil, nil)
C4_Witness ==
  \E c, b \in Callers :
    /\ FiredAtCall(c) /\ ctx[c] = "canceled0" /\ pc[c] = "idle"
    /\ ret[c] = Result(NilConn, Errorf(ErrCanceled))
    /\ FiredAtCall(b) /\ ctx[b] = "graceful0" /\ pc[b] = "idle"
    /\ ret[b] = Result(NilConn, NilErr)

\* caller c is inside the Accept of an AcceptWithContext whose signal fired
LateWait(c) ==
  /\ op[c] = "AcceptWithContext"
  /\ ctx[c] \in {"graceful", "canceled"}
  /\ pc[c] \in {"acc_block", "acc_select"}

\* C5 as claimed: once the signal fires the call begins at most one more
\* Accept attempt, and the attempt it is in ends within one heartbeat: it
\* waits under a timer at most heartBeat away.
C5_ReturnsWithinOneHeartBeat ==
  \A c \in Callers :
    /\ late[c] <= 1
    /\ LateWait(c) => (pc[c] = "acc_select" /\ dl[c].off <= heartBeat)

\* C5 amended: once the signal fires the call begins at most one more
\* Accept attempt; the attempt it is in waits under a timer at most
\* heartBeat away as long as no other caller has stored a deadline since
\* this call stored its own.
C5_AtMostOneLateAttempt ==
  \A c \in Callers :
    /\ late[c] <= 1
    /\ (LateWait(c) /\ deadlineBy = c) =>
         (pc[c] = "acc_select" /\ dl[c].off <= heartBeat)

\* C5 witness: the signal fired after the cancellation test, the call
\* went on into the one Accept attempt it is allowed, under its own deadline
C5_Witness ==
  \E c \in Callers : LateWait(c) /\ late[c] = 1 /\ deadlineBy = c

\* C6: once Close has been invoked (it begins by closing the underlying
\* listener) it eventually returns, whatever acceptLoop was doing when it
\* was invoked.
C6_CloseEventuallyReturns == lclosed ~> closeReturned

\* C6 witness: Close has returned after acceptLoop, offering a connection
\* no receiver took, left through the done branch
C6_Witness ==
  \E c \in Callers :
    op[c] = "Close" /\ pc[c] = "idle" /\ closeReturned /\ abandoned # {}

\* C7: once Close has returned acceptLoop has terminated and the WaitGroup
\* is back at zero; a terminated acceptLoop calls no accept and sends
\* nothing.
C7_PumpGoneWhenCloseReturned ==
  closeReturned => (pumpPc = "exited" /\ wg = 0)

\* C7 witness: Close has returned while a caller is still inside Accept
C7_Witness ==
  closeReturned /\ \E c \in Callers : pc[c] \in {"acc_block", "acc_select"}

\* the values AcceptWithContext may return
AwcReturns(c) ==
  {Result(NewConnDTLS(k), NilErr) : k \in Delivered}
  \cup {Result(NilConn, NilErr) : x \in {ctx[c]} \cap {"graceful", "graceful0"}}
  \cup {Result(NilConn, Errorf(ErrCanceled)) :
           x \in {ctx[c]} \cap {"canceled", "canceled0"}}
  \cup {Result(NilConn, Errorf(e)) : e \in {ErrFatal, ErrClosed}}

\* C8: AcceptWithContext returns a connection with nil error, or
\* (nil, nil) on a graceful cancellation, or no connection with a wrapped
\* cancellation cause or a wrapped fatal Accept error; never the timeout
\* error, wrapped or not.
C8_AcceptWithContextReturns ==
  \A c \in Callers :
    (op[c] = "AcceptWithContext" /\ pc[c] = "idle") =>
      /\ ret[c] \in AwcReturns(c)
      /\ ret[c].err \notin {ioTimeout, Errorf(ioTimeout)}

\* C8 witness: an AcceptWithContext is back at the cancellation test after
\* an Accept attempt (one begun after its signal fired) ended in the
\* timeout error and, beside it, one has returned a wrapped fatal error
C8_Witness ==
  \E c, b \in Callers :
    /\ op[c] = "AcceptWithContext" /\ pc[c] = "awc_ctx" /\ late[c] = 1
    /\ op[b] = "AcceptWithContext" /\ pc[b] = "idle"
    /\ ret[b] = Result(NilConn, Errorf(ErrFatal))

\* caller c leaves Accept's timed select with the timeout error in this step
TimesOut(c) ==
  /\ pc[c] = "acc_select"
  /\ \/ pc'[c] = "awc_ctx"
     \/ pc'[c] = "idle" /\ ret'[c].err \in {ioTimeout, Errorf(ioTimeout)}

\* C9: a step in which an Accept returns the timeout error consumes
\* nothing: what acceptLoop holds, its position, and the histories of
\* accepts, handoffs and abandoned connections stay as they were, so a
\* result on offer is still on offer for a later Accept.
C9_TimeoutConsumesNothing ==
  [][(\E c \in Callers : TimesOut(c)) =>
       UNCHANGED <<pumpPc, pumpVal, wg, accLog, recvLog, abandoned>>]_vars

\* C9 witness: an Accept timed out, and connection 1, on offer and
\* never handed over before, then reached the other caller
C9_Witness ==
  \E c, b \in Callers :
    /\ op[c] = "Accept" /\ pc[c] = "idle" /\ ret[c].err = ioTimeout
    /\ Holders(1) = {b}
    /\ recvLog = <<connData(1, NilErr)>>

\* C10 as claimed: until Close has completed exactly one acceptLoop is
\* alive.
C10_PumpAliveUntilClose ==
  ~closeReturned => (pumpPc # "exited" /\ wg = 1)

\* acceptLoop has handed an error to a receiver
ErrorForwarded == \E i \in DOMAIN recvLog : recvLog[i].err # NilErr

\* C10 amended: at most one acceptLoop is alive and the WaitGroup counts
\* it; it is alive from construction until it has forwarded an error or
\* taken the done branch, which may be before Close is called; and it is
\* the only sender: every value received on connCh is an outcome of its
\* calls of the underlying accept.
C10_OnePumpUntilErrorOrDone ==
  /\ wg = IF pumpPc = "exited" THEN 0 ELSE 1
  /\ ErrorForwarded => pumpPc = "exited"
  /\ pumpPc = "exited" => (ErrorForwarded \/ doneCh)
  /\ \A i \in DOMAIN recvLog : \E j \in DOMAIN accLog : recvLog[i] = accLog[j]

\* C10 witness: acceptLoop has exited after forwarding an error while
\* Close has not been called
C10_Witness ==
  pumpPc = "exited" /\ ~lclosed /\ ErrorForwarded

\* the sequence p is an initial part of the sequence q
IsPrefix(p, q) ==
  /\ Len(p) <= Len(q)
  /\ \A i \in DOMAIN p : p[i] = q[i]

\* C11: the results handed over on connCh, in the order of their handoff,
\* are the outcomes of the underlying accept in the order it produced them,
\* with none skipped and none reordered (at most the newest outcome is not
\* handed over yet); a connection produced later is never handed over
\* before one produced earlier, whichever callers receive them.
C11_HandoffsInAcceptOrder ==
  /\ IsPrefix(recvLog, accLog)
  /\ Len(accLog) <= Len(recvLog) + 1
  /\ \A i, j \in DOMAIN recvLog :
       (i < j /\ recvLog[i].conn # 0 /\ recvLog[j].conn # 0) =>
         recvLog[i].conn < recvLog[j].conn

\* C11 witness: two callers waiting at the same time received, in this
\* order, the first and the second connection, one each
C11_Witness ==
  /\ recvLog = <<connData(1, NilErr), connData(2, NilErr)>>
  /\ \E c, b \in Callers : c # b /\ Holders(1) = {c} /\ Holders(2) = {b}

\* the accept outcomes not handed over so far
Unclaimed == Len(accLog) - Len(recvLog)

\* caller c is a receiver on connCh that receives in this step
Receives(c) ==
  /\ pc[c] \in {"acc_block", "acc_select"}
  /\ pc'[c] \notin {"acc_block", "acc_select"}

\* C12: at most one accept outcome is pending at any time; acceptLoop
\* calls the underlying accept only when it holds nothing (every earlier
\* outcome was handed over), one call at a time; and connCh buffers
\* nothing: a value leaves acceptLoop only in the step in which a caller
\* waiting in Accept's select takes it, and it is the value then on offer.
C12_OnePendingResult ==
  [][/\ Unclaimed' \in {0, 1}
     /\ pumpPc' = "accept" => Unclaimed' = 0
     /\ pumpPc' = "select" => Unclaimed' = 1
     /\ accLog' # accLog =>
          /\ pumpPc = "accept" /\ Unclaimed = 0
          /\ Len(accLog') = Len(accLog) + 1
     /\ recvLog' # recvLog =>
          /\ pumpPc = "select"
          /\ recvLog' = Append(recvLog, pumpVal)
          /\ \E c \in Callers : Receives(c)]_vars

\* C12 witness: with the first connection handed over, acceptLoop holds
\* the second one on offer while no caller is there to receive it
C12_Witness ==
  /\ pumpPc = "select" /\ pumpVal = connData(2, NilErr)
  /\ recvLog = <<connData(1, NilErr)>>
  /\ \A c \in Callers : pc[c] = "idle"

\* in this step caller c calls Accept while the deadline stored last is
\* the zero time
AcceptsUnderZero(c) ==
  /\ pc[c] = "idle" /\ pc'[c] # "idle"
  /\ op'[c] = "Accept"
  /\ deadline = ZeroTime

\* C13: an Accept called while the deadline stored last is the zero value
\* waits in the select that has no timer, and an Accept waiting there
\* leaves it only by receiving what acceptLoop offers, which it returns:
\* a connection or the accept error, never the timeout error; the passing
\* of time does not end its wait.
C13_ZeroDeadlineNeverTimesOut ==
  [][\A c \in Callers :
       /\ AcceptsUnderZero(c) => (pc'[c] = "acc_block" /\ dl'[c] = ZeroTime)
       /\ (op[c] = "Accept" /\ pc[c] = "acc_block" /\ pc'[c] # "acc_block") =>
            /\ pumpPc = "select"
            /\ recvLog' = Append(recvLog, pumpVal)
            /\ pc'[c] = "idle"
            /\ ret'[c] = Received(pumpVal)
            /\ ret'[c].err # ioTimeout]_vars

\* C13 witness: a caller stored the zero deadline, nobody stored another
\* since, and its Accept after that has returned the first connection
C13_Witness ==
  \E c \in Callers :
    /\ deadline = ZeroTime /\ deadlineBy = c
    /\ op[c] = "Accept" /\ pc[c] = "idle"
    /\ ret[c] = Result(NewConnDTLS(1), NilErr)

\* caller c is inside an Accept whose deadline is the current instant (or
\* an earlier one)
DueNow(c) == op[c] = "Accept" /\ pc[c] = "acc_select" /\ dl[c] = Now

\* C14 as claimed: an Accept whose deadline is the current instant or
\* earlier returns the timeout error, whether or not acceptLoop is
\* offering a result at that moment.
C14_DueDeadlineAlwaysTimesOut ==
  [][\A c \in Callers :
       (DueNow(c) /\ pc'[c] = "idle") =>
         ret'[c] = Result(NilConn, ioTimeout)]_vars

\* C14 amended: an Accept called while the stored deadline is the current
\* instant waits under a timer that is already due, so it can return the
\* timeout error without any time passing; it returns in one step, and
\* what it returns is the timeout error, nothing being consumed, or, only
\* if acceptLoop is offering a result at that moment, possibly that
\* result instead.
C14_DueDeadlineReturnsAtOnce ==
  /\ [](\A c \in Callers : DueNow(c) => ENABLED AcceptTimeout(c))
  /\ [][\A c \in Callers :
         /\ (pc[c] = "idle" /\ pc'[c] # "idle" /\ op'[c] = "Accept"
               /\ deadline = Now) =>
              (pc'[c] = "acc_select" /\ dl'[c] = Now)
         /\ (DueNow(c) /\ pc'[c] # pc[c]) =>
              /\ pc'[c] = "idle"
              /\ \/ /\ ret'[c] = Result(NilConn, ioTimeout)
                    /\ UNCHANGED <<pumpPc, pumpVal, recvLog>>
                 \/ /\ pumpPc = "select"
                    /\ ret'[c] = Received(pumpVal)
                    /\ recvLog' = Append(recvLog, pumpVal)]_vars

\* C14 witness: a caller stored the current instant as deadline, nobody
\* stored another since, and its Accept after that returned the timeout
\* error although acceptLoop is offering the first connection
C14_Witness ==
  \E c \in Callers :
    /\ deadline = Now /\ deadlineBy = c
    /\ op[c] = "Accept" /\ pc[c] = "idle"
    /\ ret[c] = Result(NilConn, ioTimeout)
    /\ pumpPc = "select" /\ pumpVal = connData(1, NilErr) /\ recvLog = <<>>

\* the outcome of the latest underlying accept
Newest == accLog[Len(accLog)]

\* acceptLoop is offering a connection while caller c is inside an
\* AcceptWithContext whose signal has not fired
OfferedTo(c) ==
  /\ op[c] = "AcceptWithContext" /\ pc[c] # "idle"
  /\ ~CtxFired(c)
  /\ pumpPc = "select" /\ pumpVal.err = NilErr

\* the connection accepted last has been handed over, and the last call of
\* caller c returned it with a nil error
TookNewest(c) ==
  /\ accLog # <<>> /\ Len(recvLog) = Len(accLog)
  /\ pc[c] = "idle"
  /\ ret[c] = Result(NewConnDTLS(Newest.conn), NilErr)

\* C15: when acceptLoop offers a connection while an AcceptWithContext is
\* in progress, the call eventually returns that connection with a nil
\* error, unless its signal fires, Close is invoked, or the other caller
\* takes the connection (the call is not the only consumer).
C15_AcceptWithContextGetsConnection ==
  OfferedTo(Consumer) ~>
    \/ op[Consumer] = "AcceptWithContext" /\ TookNewest(Consumer)
    \/ CtxFired(Consumer)
    \/ lclosed
    \/ \E b \in Callers \ {Consumer} : TookNewest(b)

\* C15 witness: an AcceptWithContext with a ctx that is never cancelled
\* has returned the first connection; nothing was closed and the other
\* caller called nothing
C15_Witness ==
  /\ op[Consumer] = "AcceptWithContext" /\ ctx[Consumer] = "background"
  /\ TookNewest(Consumer) /\ Newest.conn = 1
  /\ ~lclosed
  /\ \A b \in Callers \ {Consumer} : op[b] = "none"

\* caller c is inside Close, after l.listener.Close has returned
InClose(c) == pc[c] \in {"close_done", "close_wait"}

\* C16: whatever the underlying close reported, nil or an error, Close
\* goes on to fire the done-signal and to wait for acceptLoop: it keeps
\* the reported error untouched meanwhile, returns only with the signal
\* fired and acceptLoop gone, and returns exactly that error (nil when the
\* underlying close succeeded).
C16_CloseReturnsCloseError ==
  /\ [](/\ \A c \in Callers :
            /\ pc[c] = "close_done" => ENABLED CloseDone(c)
            /\ pc[c] = "close_wait" => doneCh
            /\ InClose(c) => cerr[c] \in {NilErr, ErrCloseFail}
        /\ closeReturned => (doneCh /\ wg = 0 /\ pumpPc = "exited"))
  /\ [][\A c \in Callers :
         InClose(c) =>
           IF pc'[c] = "idle"
             THEN /\ pc[c] = "close_wait" /\ doneCh /\ wg = 0
                  /\ ret'[c] = Result(NilConn, cerr[c])
             ELSE cerr'[c] = cerr[c]]_vars

\* C16 witness: the underlying close failed, and Close has returned that
\* error after acceptLoop left through the done branch
C16_Witness ==
  \E c \in Callers :
    /\ op[c] = "Close" /\ pc[c] = "idle"
    /\ ret[c] = Result(NilConn, ErrCloseFail)
    /\ closeReturned /\ doneCh /\ pumpPc = "exited"
    /\ ~ErrorForwarded

\* C17: the step in which acceptLoop's send is received takes it out of
\* the loop, the WaitGroup released, if what it sent was an error, and
\* back to the call of the underlying accept, which it can always make,
\* if it was a connection; once an error has been handed over acceptLoop
\* has terminated, and no accept and no handoff happens any more.
C17_PumpStopsAfterForwardedError ==
  /\ [](/\ ErrorForwarded => (pumpPc = "exited" /\ wg = 0)
        /\ pumpPc = "accept" => ENABLED PumpAccept)
  /\ [][/\ ErrorForwarded => UNCHANGED <<accLog, recvLog, pumpPc, pumpVal>>
        /\ recvLog' # recvLog =>
             IF pumpVal.err # NilErr
               THEN pumpPc' = "exited" /\ wg' = wg - 1
               ELSE pumpPc' = "accept" /\ wg' = wg]_vars

\* C17 witness: acceptLoop forwarded a connection, accepted again,
\* forwarded the error it then got, and made no accept after it
C17_Witness ==
  /\ recvLog = <<connData(1, NilErr), connData(0, ErrFatal)>>
  /\ accLog = recvLog
  /\ pumpPc = "exited"
  /\ \A c \in Callers : pc[c] = "idle"

\* in this step the Accept of caller c reads l.deadline and enters its
\* select
ReadsDeadline(c) ==
  /\ pc[c] \in {"idle", "acc_load"}
  /\ pc'[c] \in {"acc_block", "acc_select"}

\* the deadline an Accept reading l.deadline now runs under: the value
\* stored last, by whichever caller, or the zero time if none was stored
StoredLast == IF deadlineBy = 0 THEN ZeroTime ELSE deadline

\* C18: there is one deadline per listener and the last store wins: an
\* Accept, called directly or by AcceptWithContext, runs under the value
\* stored last by any caller at the moment it reads l.deadline (without a
\* timer if that is the zero time), and the store of AcceptWithContext
\* writes now + heartBeat to that same shared value, for every caller's
\* next Accept to read.
C18_SharedDeadlineLastWriterWins ==
  [][\A c \in Callers :
       /\ ReadsDeadline(c) =>
            /\ dl'[c] = StoredLast
            /\ pc'[c] = IF IsZero(StoredLast) THEN "acc_block"
                                              ELSE "acc_select"
       /\ (pc[c] = "awc_ctx" /\ pc'[c] = "acc_load") =>
            (deadline' = Add(Now, heartBeat) /\ deadlineBy' = c)
       /\ (deadlineBy' # deadlineBy /\ deadlineBy' = c) =>
            (pc[c] \in {"idle", "awc_ctx"} /\ deadline'.kind # "nil")]_vars

\* C18 witness: the Accept inside an AcceptWithContext waits without a
\* timer, under the zero deadline the other caller stored after this call
\* had stored now + heartBeat
C18_Witness ==
  \E c \in Callers :
    /\ op[c] = "AcceptWithContext" /\ pc[c] = "acc_block"
    /\ deadlineBy \in Callers \ {c}
    /\ deadline = ZeroTime

\* what a cancelled AcceptWithContext of caller c returns
CancellationOutcome(c) ==
  IF ctx[c] \in {"canceled", "canceled0"}
    THEN Result(NilConn, Errorf(ErrCanceled))
    ELSE Result(NilConn, NilErr)

\* what acceptLoop holds and has handed over, and the shared deadline
Offer == <<pumpPc, pumpVal, wg, accLog, recvLog, abandoned, deadline>>

\* C19: every Accept attempt of AcceptWithContext is entered from the
\* cancellation test, and only when the signal has not fired at that
\* test; when it has fired there the call returns the cancellation
\* outcome in that step and touches nothing: whatever acceptLoop is
\* offering stays on offer, no deadline is stored.
C19_CancellationConsumesNothing ==
  [][\A c \in Callers :
       /\ (pc[c] # "acc_load" /\ pc'[c] = "acc_load") =>
            (pc[c] = "awc_ctx" /\ ~CtxFired(c))
       /\ (pc[c] = "awc_ctx" /\ CtxFired(c) /\ pc'[c] # pc[c]) =>
            /\ pc'[c] = "idle"
            /\ ret'[c] = CancellationOutcome(c)
            /\ UNCHANGED Offer]_vars

\* C19 witness: an AcceptWithContext whose signal fired during the call
\* returned the cancellation outcome and received nothing; the first
\* connection went to the other caller
C19_Witness ==
  \E c, b \in Callers :
    /\ op[c] = "AcceptWithContext" /\ pc[c] = "idle"
    /\ ctx[c] = "canceled" /\ ret[c] = CancellationOutcome(c)
    /\ recvLog = <<connData(1, NilErr)>>
    /\ b # c /\ Holders(1) = {b}

\* the callers inside Close past close(l.doneCh)
Joining == {c \in Callers : pc[c] = "close_wait"}

\* C20: the done-signal is fired once; a call of Close that comes to
\* close(l.doneCh) with the signal fired, as every call made after the
\* signal was fired does, cannot fire it and cannot go on to return: it
\* panics, returning nothing, and nothing runs after the panic. So of all
\* the calls of Close on a listener at most one gets past the signal and
\* returns.
C20_SecondClosePanics ==
  /\ [](/\ \A c \in Callers :
            (pc[c] = "close_done" /\ doneCh) =>
              (ENABLED ClosePanic(c) /\ ~ENABLED CloseDone(c))
        /\ Cardinality(Joining) <= 1
        /\ Joining # {} => (doneCh /\ ~closeReturned))
  /\ [][/\ doneCh => doneCh'
        /\ Panicked => UNCHANGED vars
        /\ \A c \in Callers :
             /\ (pc[c] = "close_done" /\ doneCh /\ pc'[c] # pc[c]) =>
                  (pc'[c] = "panic" /\ ret'[c] = NoRet)
             /\ (pc[c] # "panic" /\ pc'[c] = "panic") =>
                  (pc[c] = "close_done" /\ doneCh)
             /\ (op[c] = "Close" /\ pc[c] # "idle" /\ pc'[c] = "idle") =>
                  (~closeReturned /\ closeReturned')]_vars

\* C20 witness: one call of Close has returned and another call of Close
\* has panicked at close(l.doneCh), returning nothing
C20_Witness ==
  \E c \in Callers :
    /\ closeReturned /\ pc[c] = "panic" /\ op[c] = "Close"
    /\ ret[c] = NoRet

====
